---- MODULE Spec2Model ----
(***************************************************************************)
(* Chat-room / channel lifecycle synchronisation of cardboard.             *)
(*                                                                         *)
(* chat/models.py: ChatRoom and its lifecycle methods.                     *)
(* discord_lib/discord_chat_service.py: the Discord gateway client.        *)
(*                                                                         *)
(* The persisted ChatRoom rows, the puzzle rows they hang off, the hunt    *)
(* settings and the remote posts are the state.  Every ChatRoom method is  *)
(* one action; the outcome of each outbound HTTP request is an input.      *)
(***************************************************************************)
EXTENDS Integers, Sequences, FiniteSets, TLC

VARIABLES
    is_meta,            \* puzzle.is_meta, per puzzle
    meta_changed,       \* history: puzzle.is_meta was changed after creation
    flips,              \* history: number of edits of a meta flag so far
    metas,              \* puzzle.metas (linked meta puzzles), per puzzle
    created_on,         \* puzzle.created_on, per puzzle
    chat_room,          \* puzzle.chat_room is not None, per puzzle
    settings,           \* hunt.settings: discord_guild_id, announcements channel
    forum_channel_id,   \* ChatRoom.forum_channel_id, per puzzle's room
    post_id,            \* ChatRoom.post_id
    post_url,           \* ChatRoom.post_url
    remote_posts,       \* the threads that exist on the remote service, with tags
    next_id,            \* next identifier the remote service hands out
    last,               \* record of the last ChatRoom operation and its requests
    calls               \* create_channels invocations in flight: in-memory instances

vars == << is_meta, meta_changed, flips, metas, created_on, chat_room, settings,
           forum_channel_id, post_id, post_url, remote_posts, next_id, last,
           calls >>

-----------------------------------------------------------------------------
(* Bounds and value sets *)

\* identifiers the remote service can hand out in one behaviour
MaxIds == 3

\* edits of a puzzle's meta flag in one behaviour
MaxFlips == 1

\* Python's None
None == "None"

\* two puzzles that can serve as metas and one feeder puzzle
Puzzle == {"m1", "m2", "p"}

\* the puzzles whose metas relation is populated
Feeder == {"p"}

GUILD == "guild"
ANNOUNCE == "announcements"

\* outcome of one outbound HTTP exchange:
\*   ok        - a response carrying an id (or, for PATCH, accepted)
\*   neterr    - requests raised (connection error, timeout)
\*   malformed - a response without the expected id field
Outcome == {"ok", "neterr", "malformed"}

\* a PATCH response is not parsed: the exchange either went through or raised
PatchOutcome == {"ok", "neterr"}

\* Tag IDs (chat/models.py); kept as their decimal digits, which is also what
\* str(tag_id) yields, since the values exceed TLC's integer range.
NEW_TAG == "1320198250489319434"
WORKING_TAG == "1320199606243561513"
SOLVED_TAG == "1320199886192250990"

\* puzzles/puzzle_tag.py
HIGH_PRIORITY == "HIGH PRIORITY"
LOW_PRIORITY == "LOW PRIORITY"

TagName == {HIGH_PRIORITY, LOW_PRIORITY, "Logic", "crossword"}

\* ChatRole rows of the hunt: name -> role_id
ChatRoleName == {"logic"}

\* str.lower() on the tag names in use (name__iexact compares case-insensitively)
Lower(s) ==
    CASE s = "Logic" -> "logic"
      [] s = HIGH_PRIORITY -> "high priority"
      [] s = LOW_PRIORITY -> "low priority"
      [] OTHER -> s

-----------------------------------------------------------------------------
(* Requests *)

\* one outbound HTTP request: what it asks for, the channel / guild it is
\* addressed to, and its payload (tags, message text or name) as a sequence
Req(kind, target, body) == [kind |-> kind, target |-> target, body |-> body]

\* Python truthiness of an optional string
Truthy(v) == v # None /\ v # ""

\* the identifier the remote service hands out next
Fresh == ToString(next_id)

\* The remote service cannot create a thread under a channel that does not
\* exist: a request addressed to None is answered without an id.
Respond(target, outcome) ==
    IF outcome = "ok" /\ ~Truthy(target) THEN "malformed" ELSE outcome

-----------------------------------------------------------------------------
(* discord_lib/discord_chat_service.py *)

create_channel_url(guild_id, channel_id) ==
    IF ~Truthy(guild_id) \/ ~Truthy(channel_id)
    THEN [raised |-> "Missing guild_id or channel_id", url |-> None]
    ELSE [raised |-> "none",
          url |-> "https://discord.com/channels/" \o guild_id \o "/" \o channel_id]

\* requests.patch on /channels/{channel_id}; any exception is printed and dropped
service_send_message(channel_id, msg, outcome) ==
    [reqs |-> << Req("send_message", channel_id, << msg >>) >>, raised |-> "none"]

announce(puzzle_announcements_id, msg, outcome) ==
    IF Truthy(puzzle_announcements_id)
    THEN service_send_message(puzzle_announcements_id, msg, outcome)
    ELSE [reqs |-> << >>, raised |-> "none"]

\* variant: the id of the response is not returned
create_channel_impl_drops_id(guild_id, name, outcome, fresh) ==
    [reqs |-> << Req("create_forum", guild_id, << name >>) >>, id |-> None]

\* variant: an empty id is returned when the exchange fails
create_channel_impl_blank_on_failure(guild_id, name, outcome, fresh) ==
    [reqs |-> << Req("create_forum", guild_id, << name >>) >>,
     id |-> IF Respond(guild_id, outcome) = "ok" THEN fresh ELSE ""]

\* requests.post on /guilds/{guild_id}/channels; returns the id, or None when
\* the exchange raised or the response carries no id
create_channel_impl(guild_id, name, outcome, fresh) ==
    [reqs |-> << Req("create_forum", guild_id, << name >>) >>,
     id |-> IF Respond(guild_id, outcome) = "ok" THEN fresh ELSE None]

create_forum_channel(guild_id, forum_name, outcome, fresh) ==
    IF ~Truthy(guild_id)
    THEN [raised |-> "Missing guild_id", reqs |-> << >>, id |-> None]
    ELSE LET r == create_channel_impl(guild_id, forum_name, outcome, fresh)
         IN  [raised |-> "none", reqs |-> r.reqs, id |-> r.id]

\* requests.post on /channels/{forum_channel_id}/threads.  The thread exists
\* remotely as soon as the service answered with an id (created); the pair
\* (thread_id, thread_url) is returned only if building the URL inside the
\* try block did not raise, otherwise None.
create_forum_post(forum_id, puzzle_name, content, tag_ids, guild_id, outcome, fresh) ==
    LET applied_tags == [i \in 1..Len(tag_ids) |-> tag_ids[i]]
        answered == Respond(forum_id, outcome) = "ok"
        thread_url == create_channel_url(guild_id, fresh)
        returned == answered /\ thread_url.raised = "none"
    IN  [reqs |-> << Req("create_post", forum_id, applied_tags) >>,
         created |-> answered,
         applied_tags |-> applied_tags,
         thread_id |-> IF returned THEN fresh ELSE None,
         thread_url |-> IF returned THEN thread_url.url ELSE None]

\* GET the post, append the tag if absent, PATCH the merged list back; an
\* exception anywhere is printed and dropped
add_tag_to_post(post, tag_id, current, outcome) ==
    LET get == Req("get_post", post, << >>)
        applied_tags == current \o << tag_id >>
    IN  IF tag_id = None THEN [reqs |-> << >>, tags |-> current]
        ELSE IF outcome # "ok" THEN [reqs |-> << get >>, tags |-> current]
        ELSE IF \E i \in 1..Len(current) : current[i] = tag_id
             THEN [reqs |-> << get >>, tags |-> current]
             ELSE [reqs |-> << get, Req("edit_tags", post, applied_tags) >>,
                   tags |-> applied_tags]

edit_forum_post_name(post, new_name, outcome) ==
    [reqs |-> << Req("rename", post, << new_name >>) >>, raised |-> "none"]

\* ChatRole.objects.filter(name__iexact=tag_name, hunt=puzzle.hunt).first()
service_handle_tag_added(puzzle_announcements_id, puzzle, tag_name, outcome) ==
    LET role == {r \in ChatRoleName : Lower(r) = Lower(tag_name)}
    IN  IF role # {}
        THEN announce(puzzle_announcements_id, "was tagged", outcome)
        ELSE [reqs |-> << >>, raised |-> "none"]

service_handle_tag_removed(puzzle_announcements_id, puzzle, tag_name) ==
    [reqs |-> << >>, raised |-> "none"]

-----------------------------------------------------------------------------
(* chat/service.py: the ChatService operations ChatRoom calls *)

create_forum(guild_id, name, outcome, fresh) ==
    create_forum_channel(guild_id, name, outcome, fresh)

\* returns the post id, or None when no thread came back
create_post(forum_id, title, body, tags, guild_id, outcome, fresh) ==
    create_forum_post(forum_id, title, body, tags, guild_id, outcome, fresh)

\* one PATCH replacing the post's applied tags; a failure is dropped
edit_post_tags(post, tags, current, outcome) ==
    [reqs |-> << Req("edit_tags", post, tags) >>,
     tags |-> IF outcome = "ok" THEN tags ELSE current]

rename_post(post, new_name, outcome) ==
    edit_forum_post_name(post, new_name, outcome)

-----------------------------------------------------------------------------
(* chat/models.py: ChatRoom *)

\* what one ChatRoom method does: the row's fields as persisted afterwards, the
\* requests it sent, the exception it let out, the remote posts afterwards,
\* whether the remote service handed out an identifier, and whether the tag
\* was handed to the service's tag handler
Effect(forum, post, url, reqs, raised, remote, used, forwarded) ==
    [forum |-> forum, post |-> post, url |-> url, reqs |-> reqs, raised |-> raised,
     remote |-> remote, used |-> used, forwarded |-> forwarded]

\* nothing saved; the given requests sent
Sent(p, reqs) ==
    Effect(forum_channel_id[p], post_id[p], post_url[p], reqs, "none",
           remote_posts, FALSE, FALSE)

get_guild_id(p) == settings.discord_guild_id

announcements_channel_id(p) == settings.discord_puzzle_announcements_channel_id

\* timestamps compare by their position in time
Earlier(t, u) ==
    LET rank == [x \in {"2020-12-17", "2020-12-27", "2021-01-05"} |->
                    CASE x = "2020-12-17" -> 1 [] x = "2020-12-27" -> 2 [] OTHER -> 3]
    IN  rank[t] <= rank[u]

\* puzzle.metas.order_by("created_on").all()
RECURSIVE order_by_created_on(_)
order_by_created_on(S) ==
    IF S = {} THEN << >>
    ELSE LET m == CHOOSE x \in S : \A y \in S : Earlier(created_on[x], created_on[y])
         IN  << m >> \o order_by_created_on(S \ {m})

get_forum_channel_name(p) ==
    IF is_meta[p] THEN p
    ELSE LET ordered == order_by_created_on(metas[p])
         IN  IF Len(ordered) > 0 THEN ordered[1] ELSE None

\* variant: the meta flag is not consulted
puzzle_is_meta_always(p) == TRUE

\* `if self.puzzle.is_meta:`
puzzle_is_meta(p) == is_meta[p]

\* `if self.forum_channel_id is None:`
forum_absent(p) == forum_channel_id[p] = None

\* variant: the presence check on post_id is missing
post_absent_unchecked(p) == TRUE

\* `if self.post_id is None:`
post_absent(p) == post_id[p] = None

\* variant: the newest-created meta is taken
resolved_meta_newest(p) ==
    LET ordered == order_by_created_on(metas[p]) IN ordered[Len(ordered)]

\* `self.puzzle.metas.order_by("created_on").all()[0]`
resolved_meta(p) == order_by_created_on(metas[p])[1]

\* `if meta_chat_room:` -- the meta puzzle has a ChatRoom at all
meta_chat_room_present(meta) == chat_room[meta]

\* the tags handed to create_post
new_post_tags == << NEW_TAG >>

create_channels(p, outcome, fresh) ==
    IF puzzle_is_meta(p)
    THEN IF forum_absent(p)
         THEN LET r == create_forum(get_guild_id(p), p, outcome, fresh)
              IN  IF r.raised # "none"
                  THEN Effect(forum_channel_id[p], post_id[p], post_url[p],
                              r.reqs, r.raised, remote_posts, FALSE, FALSE)
                  ELSE Effect(r.id, post_id[p], post_url[p],
                              r.reqs, "none", remote_posts, r.id # None, FALSE)
         ELSE Sent(p, << >>)
    ELSE LET meta_name == get_forum_channel_name(p)
         IN  IF meta_name # None
             THEN LET meta == resolved_meta(p)
                  IN  IF meta_chat_room_present(meta) /\ post_absent(p)
                      THEN LET r == create_post(forum_channel_id[meta], p, "",
                                                new_post_tags, get_guild_id(p),
                                                outcome, fresh)
                               u == create_channel_url(get_guild_id(p), r.thread_id)
                               remote == IF r.created
                                         THEN (fresh :> r.applied_tags) @@ remote_posts
                                         ELSE remote_posts
                           IN  IF u.raised # "none"
                               THEN Effect(forum_channel_id[p], post_id[p], post_url[p],
                                           r.reqs, u.raised, remote, r.created, FALSE)
                               ELSE Effect(forum_channel_id[p], r.thread_id, u.url,
                                           r.reqs, "none", remote, r.created, FALSE)
                      ELSE Sent(p, << >>)
             ELSE Sent(p, << >>)

\* the body is commented out: `pass`
archive_channels(p) == Sent(p, << >>)

update_category(p) == Sent(p, << >>)

unarchive_channels(p) == Sent(p, << >>)

\* variant: the stored identifiers are cleared
delete_channels_clears(p) ==
    Effect(None, None, None, << >>, "none", remote_posts, FALSE, FALSE)

\* the body is commented out: `pass`, with or without check_if_used
delete_channels(p) == Sent(p, << >>)

\* variant: the message is sent whether or not a post is stored
send_message_unguarded(p, msg, outcome) ==
    Sent(p, service_send_message(post_id[p], msg, outcome).reqs)

send_message(p, msg, outcome) ==
    IF Truthy(post_id[p])
    THEN Sent(p, service_send_message(post_id[p], msg, outcome).reqs)
    ELSE Sent(p, << >>)

send_and_announce_message(p, msg, outcome) ==
    Sent(p, announce(announcements_channel_id(p), msg, outcome).reqs
            \o send_message(p, msg, outcome).reqs)

\* variant: no early return after the priority notification
handle_tag_added_falls_through(p, tag_name, outcome) ==
    LET notified == IF tag_name \in {HIGH_PRIORITY, LOW_PRIORITY}
                    THEN send_message(p, "This puzzle was marked", outcome).reqs
                    ELSE << >>
    IN  [Sent(p, notified \o service_handle_tag_added(announcements_channel_id(p), p,
                                                      tag_name, outcome).reqs)
         EXCEPT !.forwarded = TRUE]

handle_tag_added(p, tag_name, outcome) ==
    IF tag_name \in {HIGH_PRIORITY, LOW_PRIORITY}
    THEN send_message(p, "This puzzle was marked", outcome)
    ELSE [Sent(p, service_handle_tag_added(announcements_channel_id(p), p,
                                           tag_name, outcome).reqs)
          EXCEPT !.forwarded = TRUE]

handle_tag_removed(p, tag_name, outcome) ==
    [Sent(p, service_handle_tag_removed(announcements_channel_id(p), p,
                                        tag_name).reqs)
     EXCEPT !.forwarded = TRUE]

handle_puzzle_rename(p, new_name, outcome) ==
    IF Truthy(post_id[p])
    THEN Sent(p, rename_post(post_id[p], new_name, outcome).reqs)
    ELSE Sent(p, << >>)

\* the applied tags of the remote post, if the remote service knows the post
RemoteTags(post) ==
    IF post \in DOMAIN remote_posts THEN remote_posts[post] ELSE << >>

WithTags(p, r) ==
    [Sent(p, r.reqs) EXCEPT !.remote =
        IF post_id[p] \in DOMAIN remote_posts
        THEN [remote_posts EXCEPT ![post_id[p]] = r.tags]
        ELSE remote_posts]

handle_puzzle_solved(p, outcome) ==
    IF Truthy(post_id[p])
    THEN WithTags(p, edit_post_tags(post_id[p], << SOLVED_TAG >>,
                                    RemoteTags(post_id[p]), outcome))
    ELSE Sent(p, << >>)

\* variant: the tag is merged into the post's tags instead of replacing them
handle_puzzle_unsolved_merging(p, outcome) ==
    IF Truthy(post_id[p])
    THEN WithTags(p, add_tag_to_post(post_id[p], WORKING_TAG,
                                     RemoteTags(post_id[p]), outcome))
    ELSE Sent(p, << >>)

handle_puzzle_unsolved(p, outcome) ==
    IF Truthy(post_id[p])
    THEN WithTags(p, edit_post_tags(post_id[p], << WORKING_TAG >>,
                                    RemoteTags(post_id[p]), outcome))
    ELSE Sent(p, << >>)

-----------------------------------------------------------------------------
(* State machine *)

\* creation timestamps: m1 older than m2, or m2 older than m1
OldestFirst == [m1 |-> "2020-12-17", m2 |-> "2020-12-27", p |-> "2021-01-05"]
CreatedOn == {OldestFirst,
              [m1 |-> "2020-12-27", m2 |-> "2020-12-17", p |-> "2021-01-05"]}

\* the invocations of create_channels that can be in flight together
Caller == {"a", "b", "c"}

\* an invocation that has not started: its position, the room it runs on, the
\* in-memory fields of `self`, update_fields, the forum the post goes under,
\* the requests it sent, what it raised, and its place in the order of saves
NoCall == [pc |-> "idle", room |-> "none", forum |-> None, post |-> None,
           url |-> None, update_fields |-> "none", target |-> None,
           reqs |-> << >>, raised |-> "none", saved |-> 0]

Idle == [op |-> "none", room |-> "none", arg |-> None, outcome |-> "none",
         reqs |-> << >>, raised |-> "none", forwarded |-> FALSE,
         pre |-> [forum |-> None, post |-> None, url |-> None, tags |-> << >>]]

Init ==
    /\ is_meta = [p \in Puzzle |-> p \notin Feeder]
    /\ meta_changed = [p \in Puzzle |-> FALSE]
    /\ flips = 0
    /\ metas \in [Puzzle -> SUBSET (Puzzle \ Feeder)]
    /\ \A p \in Puzzle \ Feeder : metas[p] = {}
    /\ created_on \in CreatedOn
    \* the order of creation only shows when more than one meta is linked
    /\ (\A p \in Puzzle : Cardinality(metas[p]) < 2) => created_on = OldestFirst
    /\ chat_room \in [Puzzle -> BOOLEAN]
    /\ \A p \in Puzzle \ {"m1"} : chat_room[p]
    /\ settings \in [discord_guild_id : {None, GUILD},
                     discord_puzzle_announcements_channel_id : {None, ANNOUNCE}]
    /\ forum_channel_id = [p \in Puzzle |-> None]
    /\ post_id = [p \in Puzzle |-> None]
    /\ post_url = [p \in Puzzle |-> None]
    /\ remote_posts = << >>
    /\ next_id = 1
    /\ last = Idle
    /\ calls = [c \in Caller |-> NoCall]

Env == << is_meta, meta_changed, flips, metas, created_on, chat_room, settings >>

\* a ChatRoom method ran on p's room with effect e
Apply(op, p, arg, outcome, e) ==
    /\ outcome = "ok" /\ e.used => next_id <= MaxIds
    /\ forum_channel_id' = [forum_channel_id EXCEPT ![p] = e.forum]
    /\ post_id' = [post_id EXCEPT ![p] = e.post]
    /\ post_url' = [post_url EXCEPT ![p] = e.url]
    /\ remote_posts' = e.remote
    /\ next_id' = IF e.used THEN next_id + 1 ELSE next_id
    /\ last' = [op |-> op, room |-> p, arg |-> arg,
                outcome |-> IF e.reqs = << >> THEN "none"
                            ELSE Respond(e.reqs[1].target, outcome),
                reqs |-> e.reqs, raised |-> e.raised, forwarded |-> e.forwarded,
                pre |-> [forum |-> forum_channel_id[p], post |-> post_id[p],
                         url |-> post_url[p], tags |-> RemoteTags(post_id[p])]]
    /\ UNCHANGED << Env, calls >>

CreateChannels(p) ==
    /\ chat_room[p]
    /\ \E outcome \in Outcome :
            Apply("create_channels", p, None, outcome, create_channels(p, outcome, Fresh))

SendMessage(p) ==
    /\ chat_room[p]
    /\ \E outcome \in PatchOutcome :
            Apply("send_message", p, "msg", outcome, send_message(p, "msg", outcome))

SendAndAnnounceMessage(p) ==
    /\ chat_room[p]
    /\ \E outcome \in PatchOutcome :
            Apply("send_and_announce_message", p, "msg", outcome,
                  send_and_announce_message(p, "msg", outcome))

HandleTagAdded(p) ==
    /\ chat_room[p]
    /\ \E tag_name \in TagName, outcome \in PatchOutcome :
            Apply("handle_tag_added", p, tag_name, outcome,
                  handle_tag_added(p, tag_name, outcome))

HandleTagRemoved(p) ==
    /\ chat_room[p]
    /\ \E tag_name \in TagName :
            Apply("handle_tag_removed", p, tag_name, "ok",
                  handle_tag_removed(p, tag_name, "ok"))

HandlePuzzleRename(p) ==
    /\ chat_room[p]
    /\ \E outcome \in PatchOutcome :
            Apply("handle_puzzle_rename", p, "renamed", outcome,
                  handle_puzzle_rename(p, "renamed", outcome))

HandlePuzzleSolved(p) ==
    /\ chat_room[p]
    /\ \E outcome \in PatchOutcome :
            Apply("handle_puzzle_solved", p, None, outcome, handle_puzzle_solved(p, outcome))

HandlePuzzleUnsolved(p) ==
    /\ chat_room[p]
    /\ \E outcome \in PatchOutcome :
            Apply("handle_puzzle_unsolved", p, None, outcome,
                  handle_puzzle_unsolved(p, outcome))

ArchiveChannels(p) ==
    /\ chat_room[p]
    /\ Apply("archive_channels", p, None, "ok", archive_channels(p))

UpdateCategory(p) ==
    /\ chat_room[p]
    /\ Apply("update_category", p, None, "ok", update_category(p))

UnarchiveChannels(p) ==
    /\ chat_room[p]
    /\ Apply("unarchive_channels", p, None, "ok", unarchive_channels(p))

DeleteChannels(p) ==
    /\ chat_room[p]
    /\ Apply("delete_channels", p, None, "ok", delete_channels(p))

\* the puzzle's meta flag is edited
SetIsMeta(p) ==
    /\ flips < MaxFlips
    /\ flips' = flips + 1
    /\ is_meta' = [is_meta EXCEPT ![p] = ~is_meta[p]]
    /\ meta_changed' = [meta_changed EXCEPT ![p] = TRUE]
    /\ last' = Idle
    /\ UNCHANGED << metas, created_on, chat_room, settings, forum_channel_id,
                    post_id, post_url, remote_posts, next_id, calls >>

\* the hunt's discord_guild_id setting is filled in or cleared
SetGuildId ==
    /\ settings' = [settings EXCEPT !.discord_guild_id =
                        IF settings.discord_guild_id = None THEN GUILD ELSE None]
    /\ last' = Idle
    /\ UNCHANGED << is_meta, meta_changed, flips, metas, created_on, chat_room,
                    forum_channel_id, post_id, post_url, remote_posts, next_id,
                    calls >>

\* create_channels runs on every room; the other operations are
\* exercised on the feeder puzzle's room, the only one that can hold a post
Next ==
    \/ SetGuildId
    \/ \E p \in Puzzle : CreateChannels(p)
    \/ \E p \in Puzzle : SetIsMeta(p)
    \/ \E p \in Feeder : SendMessage(p)
    \/ \E p \in Feeder : SendAndAnnounceMessage(p)
    \/ \E p \in Feeder : HandleTagAdded(p)
    \/ \E p \in Feeder : HandleTagRemoved(p)
    \/ \E p \in Feeder : HandlePuzzleRename(p)
    \/ \E p \in Feeder : HandlePuzzleSolved(p)
    \/ \E p \in Feeder : HandlePuzzleUnsolved(p)
    \/ \E p \in Feeder : ArchiveChannels(p)
    \/ \E p \in Feeder : UpdateCategory(p)
    \/ \E p \in Feeder : UnarchiveChannels(p)
    \/ \E p \in Feeder : DeleteChannels(p)

Spec == Init /\ [][Next]_vars

-----------------------------------------------------------------------------
(* create_channels as it runs when invocations overlap: no lock is taken and
   no transaction is open, so the load of the row with its `is None` checks,
   the HTTP exchange and the save are separate steps. *)

\* `self` as loaded from the row, and the branch of create_channels the checks
\* of lines 87-100 select
load_and_check(p) ==
    LET self == [NoCall EXCEPT !.room = p, !.forum = forum_channel_id[p],
                               !.post = post_id[p], !.url = post_url[p]]
        skip == [self EXCEPT !.pc = "saving"]
    IN  IF puzzle_is_meta(p)
        THEN IF forum_absent(p)
             THEN [self EXCEPT !.pc = "requesting", !.update_fields = "forum"]
             ELSE skip
        ELSE IF get_forum_channel_name(p) # None
             THEN LET meta == resolved_meta(p)
                  IN  IF meta_chat_room_present(meta) /\ post_absent(p)
                      THEN [self EXCEPT !.pc = "requesting", !.update_fields = "post",
                                        !.target = forum_channel_id[meta]]
                      ELSE skip
             ELSE skip

\* variant: a field is written only while the row still holds None in it
save_if_unset(p, self) ==
    [forum |-> IF self.update_fields = "forum" /\ forum_channel_id[p] = None
               THEN self.forum ELSE forum_channel_id[p],
     post |-> IF self.update_fields = "post" /\ post_id[p] = None
              THEN self.post ELSE post_id[p],
     url |-> IF self.update_fields = "post" /\ post_url[p] = None
             THEN self.url ELSE post_url[p]]

\* self.save(update_fields=update_fields): the row after the write
save(p, self) ==
    [forum |-> IF self.update_fields = "forum" THEN self.forum ELSE forum_channel_id[p],
     post |-> IF self.update_fields = "post" THEN self.post ELSE post_id[p],
     url |-> IF self.update_fields = "post" THEN self.url ELSE post_url[p]]

RaceFrame == << is_meta, meta_changed, flips, metas, created_on, chat_room,
                settings, last >>

\* invocation c starts on p's room: the row is loaded and the checks are made
LoadAndCheck(c, p) ==
    /\ chat_room[p]
    /\ calls[c].pc = "idle"
    /\ calls' = [calls EXCEPT ![c] = load_and_check(p)]
    /\ UNCHANGED << RaceFrame, forum_channel_id, post_id, post_url, remote_posts,
                    next_id >>

\* the service call of invocation c: service.create_forum
RequestForum(c) ==
    /\ calls[c].pc = "requesting"
    /\ calls[c].update_fields = "forum"
    /\ \E outcome \in Outcome :
         LET p == calls[c].room
             r == create_forum(get_guild_id(p), p, outcome, Fresh)
         IN  /\ outcome = "ok" /\ r.id # None => next_id <= MaxIds
             /\ calls' = [calls EXCEPT ![c] =
                    IF r.raised # "none"
                    THEN [@ EXCEPT !.pc = "raised", !.raised = r.raised, !.reqs = r.reqs]
                    ELSE [@ EXCEPT !.pc = "saving", !.forum = r.id, !.reqs = r.reqs]]
             /\ next_id' = IF r.id # None THEN next_id + 1 ELSE next_id
    /\ UNCHANGED << RaceFrame, forum_channel_id, post_id, post_url, remote_posts >>

\* the service calls of invocation c: service.create_post, create_channel_url
RequestPost(c) ==
    /\ calls[c].pc = "requesting"
    /\ calls[c].update_fields = "post"
    /\ \E outcome \in Outcome :
         LET p == calls[c].room
             r == create_post(calls[c].target, p, "", new_post_tags, get_guild_id(p),
                              outcome, Fresh)
             u == create_channel_url(get_guild_id(p), r.thread_id)
         IN  /\ outcome = "ok" /\ r.created => next_id <= MaxIds
             /\ calls' = [calls EXCEPT ![c] =
                    IF u.raised # "none"
                    THEN [@ EXCEPT !.pc = "raised", !.raised = u.raised,
                                   !.post = r.thread_id, !.reqs = r.reqs]
                    ELSE [@ EXCEPT !.pc = "saving", !.post = r.thread_id,
                                   !.url = u.url, !.reqs = r.reqs]]
             /\ remote_posts' = IF r.created
                                THEN (Fresh :> r.applied_tags) @@ remote_posts
                                ELSE remote_posts
             /\ next_id' = IF r.created THEN next_id + 1 ELSE next_id
    /\ UNCHANGED << RaceFrame, forum_channel_id, post_id, post_url >>

\* the save of invocation c
Save(c) ==
    /\ calls[c].pc = "saving"
    /\ LET p == calls[c].room
           row == save(p, calls[c])
       IN  /\ forum_channel_id' = [forum_channel_id EXCEPT ![p] = row.forum]
           /\ post_id' = [post_id EXCEPT ![p] = row.post]
           /\ post_url' = [post_url EXCEPT ![p] = row.url]
    /\ calls' = [calls EXCEPT ![c].pc = "done",
                              ![c].saved = 1 + Cardinality({d \in Caller :
                                                              calls[d].pc = "done"})]
    /\ UNCHANGED << RaceFrame, remote_posts, next_id >>

RaceNext ==
    \/ \E c \in Caller, p \in Puzzle : LoadAndCheck(c, p)
    \/ \E c \in Caller : RequestForum(c)
    \/ \E c \in Caller : RequestPost(c)
    \/ \E c \in Caller : Save(c)

SpecRace == Init /\ [][RaceNext]_vars

-----------------------------------------------------------------------------
(* Vocabulary of the properties *)

IsCall(op) == last.op = op

\* the requests of a kind sent by the last operation
ReqsOfKind(kind) == SelectSeq(last.reqs, LAMBDA r : r.kind = kind)

\* the last operation sent a request and the gateway did not deliver: the
\* exchange raised, or the response carried no id
GatewayFailed == last.outcome \in {"neterr", "malformed"}

\* every request of the last operation went to a channel or guild that exists
AddressedRequests == \A i \in 1..Len(last.reqs) : Truthy(last.reqs[i].target)

\* the persisted fields of the room the last operation ran on are as before it
RowUnchanged ==
    /\ forum_channel_id[last.room] = last.pre.forum
    /\ post_id[last.room] = last.pre.post
    /\ post_url[last.room] = last.pre.url

\* a tag list as the set of tags it holds
TagSet(tags) == {tags[i] : i \in 1..Len(tags)}

\* the oldest-created of the metas linked to p (p has at least one)
OldestMeta(p) ==
    CHOOSE m \in metas[p] : \A y \in metas[p] : Earlier(created_on[m], created_on[y])

-----------------------------------------------------------------------------
(* C1: if the gateway's post creation fails (network exception, or a response
   without an id) during create_channels on a non-meta puzzle, then afterwards
   post_id and post_url are both still unset and no exception comes out of
   create_channels.  Stated for the plain case: the guild id is configured and
   the request is addressed to an existing forum channel, so the failure is
   the gateway's alone. *)
C1_PostFailureSuppressed ==
    (/\ IsCall("create_channels")
     /\ ~is_meta[last.room]
     /\ Truthy(settings.discord_guild_id)
     /\ Len(ReqsOfKind("create_post")) = 1
     /\ AddressedRequests
     /\ GatewayFailed)
    => (/\ post_id[last.room] = None
        /\ post_url[last.room] = None
        /\ last.raised = "none")

(* C2: when the applicable identifier is already stored (forum_channel_id for a
   meta puzzle, post_id for a non-meta puzzle), a further create_channels call
   sends no request and leaves forum_channel_id, post_id and post_url as they
   were. *)
C2_SecondCallIsNoOp ==
    (/\ IsCall("create_channels")
     /\ \/ is_meta[last.room] /\ last.pre.forum # None
        \/ ~is_meta[last.room] /\ last.pre.post # None)
    => (last.reqs = << >> /\ RowUnchanged)

\* a second call on a non-meta room that already holds its post
C2_Witness ==
    /\ IsCall("create_channels")
    /\ ~is_meta[last.room]
    /\ last.pre.post # None
    /\ post_id[last.room] = last.pre.post
    /\ last.reqs = << >>

(* C3 as claimed: for a meta puzzle with forum_channel_id unset, one call to
   create_channels sends exactly one forum-creation request and no
   post-creation request, and afterwards forum_channel_id is non-null. *)
C3_Original ==
    (/\ IsCall("create_channels")
     /\ is_meta[last.room]
     /\ last.pre.forum = None)
    => (/\ Len(ReqsOfKind("create_forum")) = 1
        /\ Len(ReqsOfKind("create_post")) = 0
        /\ forum_channel_id[last.room] # None)

(* C3 amended: for a meta puzzle with forum_channel_id unset, one call to
   create_channels sends no post-creation request and at most one
   forum-creation request: none, with "Missing guild_id" raised and the row
   untouched, when the guild id is missing; otherwise exactly one, addressed
   to the guild, after which forum_channel_id is non-null exactly when the
   gateway answered with an id. *)
C3_OneForumRequest ==
    (/\ IsCall("create_channels")
     /\ is_meta[last.room]
     /\ last.pre.forum = None)
    => (/\ Len(ReqsOfKind("create_post")) = 0
        /\ IF Truthy(settings.discord_guild_id)
           THEN /\ last.reqs = << Req("create_forum", settings.discord_guild_id,
                                      << last.room >>) >>
                /\ last.raised = "none"
                /\ (forum_channel_id[last.room] # None) <=> (last.outcome = "ok")
           ELSE /\ last.reqs = << >>
                /\ last.raised = "Missing guild_id"
                /\ RowUnchanged)

C3_Witness ==
    /\ IsCall("create_channels")
    /\ is_meta[last.room]
    /\ last.pre.forum = None
    /\ Len(ReqsOfKind("create_forum")) = 1
    /\ forum_channel_id[last.room] # None

(* C4: for a non-meta puzzle with post_id unset whose resolved meta (the
   oldest-created of its linked metas) has a stored forum_channel_id, one call
   to create_channels sends exactly one post-creation request, addressed to
   that meta's forum channel and carrying exactly the tag "new", and no
   forum-creation request. *)
C4_OnePostRequest ==
    (/\ IsCall("create_channels")
     /\ ~is_meta[last.room]
     /\ last.pre.post = None
     /\ metas[last.room] # {}
     /\ chat_room[OldestMeta(last.room)]
     /\ forum_channel_id[OldestMeta(last.room)] # None)
    => last.reqs = << Req("create_post", forum_channel_id[OldestMeta(last.room)],
                          << NEW_TAG >>) >>

\* two metas linked, the one created first being m2; the post landed there
C4_Witness ==
    /\ IsCall("create_channels")
    /\ ~is_meta[last.room]
    /\ last.pre.post = None
    /\ metas[last.room] = {"m1", "m2"}
    /\ OldestMeta(last.room) = "m2"
    /\ forum_channel_id["m1"] # None
    /\ forum_channel_id["m2"] # None
    /\ Len(ReqsOfKind("create_post")) = 1
    /\ last.reqs[1].target = forum_channel_id["m2"]
    /\ post_id[last.room] # None

(* C5: create_channels on a non-meta puzzle sends a post-creation request only
   if a linked meta exists and that meta's ChatRoom already has a stored
   forum_channel_id; when the resolved meta's ChatRoom has no forum_channel_id
   (or no meta is linked) no post-creation request is sent and post_id stays
   unset.  Stated with the guild id configured, so that nothing but the forum
   channel can be missing. *)
C5_PostOnlyUnderStoredForum ==
    (/\ IsCall("create_channels")
     /\ ~is_meta[last.room]
     /\ Truthy(settings.discord_guild_id))
    => LET forum_ready == /\ metas[last.room] # {}
                          /\ chat_room[OldestMeta(last.room)]
                          /\ forum_channel_id[OldestMeta(last.room)] # None
       IN  /\ Len(ReqsOfKind("create_post")) > 0 => forum_ready
           /\ ~forum_ready => (/\ Len(ReqsOfKind("create_post")) = 0
                               /\ post_id[last.room] = last.pre.post)

(* C6 as claimed: in every reachable state exactly one of forum_channel_id and
   post_id of a ChatRoom is populated, forum_channel_id for a meta puzzle and
   post_id for a non-meta puzzle. *)
C6_Original ==
    \A p \in Puzzle :
        chat_room[p] =>
            IF is_meta[p]
            THEN forum_channel_id[p] # None /\ post_id[p] = None
            ELSE post_id[p] # None /\ forum_channel_id[p] = None

(* C6 amended: identifiers are populated lazily, so a ChatRoom may hold
   neither.  Every create_channels call populates at most the identifier that
   matches the puzzle's current meta flag (forum_channel_id for a meta,
   post_id for a non-meta) and leaves the other as it was, and a stored post_id
   comes with a stored post_url.  Hence, as long as the puzzle's meta flag was
   never edited, at most one of the two is populated and it is the one matching
   the flag; the two can be populated together only after an edit of the
   flag. *)
C6_LazyMatchingIdentifier ==
    /\ \A p \in Puzzle :
        /\ post_id[p] # None => post_url[p] # None
        /\ ~meta_changed[p] =>
              /\ forum_channel_id[p] # None => is_meta[p]
              /\ post_id[p] # None => ~is_meta[p]
              /\ ~(forum_channel_id[p] # None /\ post_id[p] # None)
    /\ IsCall("create_channels") =>
          IF is_meta[last.room]
          THEN post_id[last.room] = last.pre.post /\ post_url[last.room] = last.pre.url
          ELSE forum_channel_id[last.room] = last.pre.forum

\* a first call on a non-meta room whose flag was never edited stored the post
C6_Witness ==
    /\ IsCall("create_channels")
    /\ ~is_meta[last.room]
    /\ ~meta_changed[last.room]
    /\ last.pre.post = None
    /\ post_id[last.room] # None
    /\ post_url[last.room] # None
    /\ forum_channel_id[last.room] = None

\* both identifiers populated together, after the feeder was made a meta
C6_BothPopulated ==
    \E p \in Puzzle : forum_channel_id[p] # None /\ post_id[p] # None

(* C7 as claimed: for a ChatRoom with a stored post_id, handle_puzzle_solved
   followed by handle_puzzle_unsolved leaves the remote post's tag set equal
   to exactly {working}. *)
C7_Original ==
    [][(/\ last.op = "handle_puzzle_solved"
        /\ last'.op = "handle_puzzle_unsolved"
        /\ last'.room = last.room
        /\ post_id[last.room] # None)
       => (/\ post_id[last.room] \in DOMAIN remote_posts'
           /\ TagSet(remote_posts'[post_id[last.room]]) = {WORKING_TAG})]_vars

(* C7 amended: for a ChatRoom with a stored post_id, handle_puzzle_solved
   followed by handle_puzzle_unsolved sends one request replacing the whole tag
   list by [working]; when the gateway accepts that request the remote post's
   tag set is exactly {working}, whatever it held before (no merge), and when
   the request fails the failure is dropped and the tags stay as they were. *)
C7_UnsolvedOverwritesTags ==
    [][(/\ last.op = "handle_puzzle_solved"
        /\ last'.op = "handle_puzzle_unsolved"
        /\ last'.room = last.room
        /\ post_id[last.room] # None)
       => (/\ last'.reqs = << Req("edit_tags", post_id[last.room], << WORKING_TAG >>) >>
           /\ last'.raised = "none"
           /\ post_id[last.room] \in DOMAIN remote_posts'
           /\ IF last'.outcome = "ok"
              THEN TagSet(remote_posts'[post_id[last.room]]) = {WORKING_TAG}
              ELSE remote_posts'[post_id[last.room]] =
                      remote_posts[post_id[last.room]])]_vars

\* the post carried {solved}, left by handle_puzzle_solved; unsolved went
\* through and the post is tagged working alone
C7_Witness ==
    /\ IsCall("handle_puzzle_unsolved")
    /\ last.outcome = "ok"
    /\ post_id[last.room] # None
    /\ TagSet(last.pre.tags) = {SOLVED_TAG}
    /\ TagSet(RemoteTags(post_id[last.room])) = {WORKING_TAG}

(* C8: on a ChatRoom with no stored post_id, send_message sends no request,
   and neither do handle_puzzle_rename, handle_puzzle_solved and
   handle_puzzle_unsolved. *)
C8_NoPostNoRequest ==
    (/\ last.op \in {"send_message", "handle_puzzle_rename",
                     "handle_puzzle_solved", "handle_puzzle_unsolved"}
     /\ last.pre.post = None)
    => (last.reqs = << >> /\ last.raised = "none" /\ RowUnchanged)

C8_Witness ==
    /\ IsCall("send_message")
    /\ last.pre.post = None
    /\ post_id[last.room] = None
    /\ last.reqs = << >>

(* C9 as claimed: handle_tag_added hands every tag name, priority tags
   included, to the gateway's tag handler; for a priority tag it additionally
   sends a direct chat notification to the puzzle's post. *)
C9_Original ==
    IsCall("handle_tag_added")
    => (/\ last.forwarded
        /\ last.arg \in {HIGH_PRIORITY, LOW_PRIORITY} =>
              Len(ReqsOfKind("send_message")) > 0)

(* C9 amended: handle_tag_added hands every tag name that is not a priority
   tag to the gateway's tag handler; for a priority tag (high or low priority)
   it instead sends a direct chat notification to the puzzle's post, when a
   post_id is stored, and returns without handing the tag to the gateway's tag
   handler. *)
C9_PriorityNotifiedOthersForwarded ==
    IsCall("handle_tag_added")
    => IF last.arg \in {HIGH_PRIORITY, LOW_PRIORITY}
       THEN /\ ~last.forwarded
            /\ last.reqs = IF last.pre.post # None
                           THEN << Req("send_message", last.pre.post,
                                       << "This puzzle was marked" >>) >>
                           ELSE << >>
       ELSE last.forwarded

\* a priority tag on a room with a post: notified, not forwarded
C9_Witness ==
    /\ IsCall("handle_tag_added")
    /\ last.arg = LOW_PRIORITY
    /\ last.pre.post # None
    /\ Len(last.reqs) = 1
    /\ ~last.forwarded

\* a non-priority tag matching a ChatRole was forwarded and announced
C9_ForwardedWitness ==
    /\ IsCall("handle_tag_added")
    /\ last.arg = "Logic"
    /\ last.forwarded
    /\ Len(last.reqs) = 1

(* C10: the only failures that reach the caller of a ChatRoom operation are
   precondition violations (a required identifier such as the guild id is
   missing), raised before any request is sent and leaving the persisted state
   unchanged; network failures and malformed remote responses never come out of
   a ChatRoom operation.  Stated for operations whose requests go to a channel
   or guild that exists, so that a failure is the gateway's alone. *)
C10_OnlyPreconditionsRaise ==
    (last.op # "none" /\ AddressedRequests)
    => (/\ last.raised # "none" => (last.reqs = << >> /\ RowUnchanged)
        /\ GatewayFailed => last.raised = "none")


(* C12: a gateway failure during create_channels (swallowed at the gateway)
   leaves forum_channel_id, post_id and post_url of the room as they were and
   is answered by no second request in the same call; and the create_channels
   call that follows it on the same room sends the creation request again. *)
C12_FailureKeepsRowAndIsReattempted ==
    [][/\ (IsCall("create_channels")' /\ GatewayFailed')
            => (RowUnchanged' /\ Len(last'.reqs) = 1)
       /\ (/\ IsCall("create_channels")
           /\ GatewayFailed
           /\ IsCall("create_channels")'
           /\ last'.room = last.room)
            => (/\ Len(last'.reqs) = 1
                /\ last'.reqs[1].kind = last.reqs[1].kind
                /\ last'.reqs[1].target = last.reqs[1].target)]_vars

\* create_channels on a meta room failed at the gateway without an exception:
\* one request went out and the forum id is still unset
C12_Witness ==
    /\ IsCall("create_channels")
    /\ GatewayFailed
    /\ last.raised = "none"
    /\ Len(ReqsOfKind("create_forum")) = 1
    /\ last.pre.forum = None
    /\ forum_channel_id[last.room] = None


(* C13: the persisted identifiers are write-once.  Over every step of every
   sequence of ChatRoom operations, a room's forum_channel_id, post_id or
   post_url changes only in a create_channels call on that room, and a field
   that holds a non-null value is never changed or cleared by any operation:
   the disabled archive, category, unarchive and delete operations and the
   message, tag, solve and rename handlers included. *)
C13_IdentifiersWriteOnce ==
    [][\A p \in Puzzle :
         /\ (\/ forum_channel_id'[p] # forum_channel_id[p]
             \/ post_id'[p] # post_id[p]
             \/ post_url'[p] # post_url[p])
              => (IsCall("create_channels")' /\ last'.room = p)
         /\ forum_channel_id[p] # None => forum_channel_id'[p] = forum_channel_id[p]
         /\ post_id[p] # None => post_id'[p] = post_id[p]
         /\ post_url[p] # None => post_url'[p] = post_url[p]]_vars

\* delete_channels ran on a room that holds a post id and a post url
C13_Witness ==
    /\ IsCall("delete_channels")
    /\ last.pre.post # None
    /\ last.pre.url # None
    /\ post_id[last.room] = last.pre.post
    /\ post_url[last.room] = last.pre.url


\* the invocations that passed the `is None` check of a field of p's row and
\* have saved
Writers(p, field) ==
    {c \in Caller : /\ calls[c].pc = "done"
                    /\ calls[c].room = p
                    /\ calls[c].update_fields = field}

\* the identifier an invocation obtained for the field it writes
Obtained(c) == IF calls[c].update_fields = "forum" THEN calls[c].forum ELSE calls[c].post

\* the identifier the row of p holds in a field
Stored(p, field) == IF field = "forum" THEN forum_channel_id[p] ELSE post_id[p]

(* C11: create_channels invocations that overlap on one ChatRoom are not
   serialised: every invocation that passed the `is None` check sent a creation
   request of its own for that room, the row holds the identifier of the
   invocation that saved last, and an identifier obtained by an earlier writer
   is stored nowhere.  The witness is the interleaving of the claim: two
   invocations both pass the check before either saves, two posts are created
   and the stored post_id is the later writer's. *)
C11_LastWriterWins ==
    \A p \in Puzzle, field \in {"forum", "post"} :
        LET W == Writers(p, field) IN
        W # {} =>
            LET w == CHOOSE c \in W : \A d \in W : calls[d].saved <= calls[c].saved
            IN  /\ \A c \in W : Len(calls[c].reqs) = 1
                /\ Stored(p, field) = Obtained(w)
                /\ \A c \in W \ {w} :
                        (Obtained(c) # None /\ Obtained(c) # Obtained(w))
                        => \A q \in Puzzle : /\ forum_channel_id[q] # Obtained(c)
                                             /\ post_id[q] # Obtained(c)

\* two invocations on one room have both created a post and saved: two posts
\* exist remotely, the row holds the later writer's and the other is orphaned
C11_Witness ==
    \E c, d \in Caller :
        /\ c # d
        /\ calls[c].room = calls[d].room
        /\ calls[c].pc = "done" /\ calls[d].pc = "done"
        /\ calls[c].update_fields = "post" /\ calls[d].update_fields = "post"
        /\ calls[c].saved < calls[d].saved
        /\ calls[c].post # None /\ calls[d].post # None
        /\ calls[c].post # calls[d].post
        /\ {calls[c].post, calls[d].post} \subseteq DOMAIN remote_posts
        /\ post_id[calls[c].room] = calls[d].post
        /\ \A q \in Puzzle : post_id[q] # calls[c].post

====
